---- MODULE Spec2Model ----
(***************************************************************************)
(* A model of src/txtcollstats/dirtree_tok_stats.py: the Tree Walker       *)
(* (list_directory_tree), the Sampler (sample_filenames), the Loader       *)
(* generator (load_files) as consumed by sample_token_lengths, the         *)
(* Statistics Engine (SummaryStatistics.from_int_seq), the table renderer  *)
(* and the __main__ driver.                                                *)
(*                                                                         *)
(* Strings the program takes apart (manifest lines, file names, glob       *)
(* patterns, encoding names) are sequences of one-character strings.       *)
(* Floats are exact rationals [num, den] with den > 0.                     *)
(***************************************************************************)
EXTENDS Integers, Sequences, FiniteSets, TLC

VARIABLES
    \* inputs of a driver run
    manifest,       \* the lines of args.coll_list_file, each with its line end
    n,              \* args.n
    fs,             \* the files on disk, in the order os.walk meets them
    \* the driver's state
    pc, err, lineIdx, collname, dir_, char_encoding,
    filenames, fileIdx, text, token_lengths,
    openHandles, events, stats_list, stdout,
    \* a direct call of SummaryStatistics.from_int_seq
    st_pc, st_seq, st_threshold, st_record,
    \* a direct iteration of list_directory_tree
    w_pc, w_dir, w_patterns, w_todo, w_yielded

driverVars == <<manifest, n, pc, err, lineIdx, collname, dir_, char_encoding,
                filenames, fileIdx, text, token_lengths,
                openHandles, events, stats_list, stdout>>
statsVars == <<st_pc, st_seq, st_threshold, st_record>>
walkVars == <<w_pc, w_dir, w_patterns, w_todo, w_yielded>>
vars == <<fs, driverVars, statsVars, walkVars>>

----------------------------------------------------------------------------
(* Bounds of the model. *)

\* the longest token-count sequence handed to from_int_seq directly
MaxSeqLen == 3
\* the largest token count of a directly supplied sequence
MaxTok == 3
\* the most lines a manifest has
MaxLines == 2
\* the largest --n
MaxN == 4

----------------------------------------------------------------------------
(* Exceptions and rationals. *)

Raise(kind) == [exc |-> kind]
IsExc(v) == "exc" \in DOMAIN v
\* a returned sequence, told apart from an exception
Return(v) == [value |-> v]

Rat(a, b) == [num |-> a, den |-> b]
Leq(x, y) == x.num * y.den <= y.num * x.den

----------------------------------------------------------------------------
(* The Statistics Engine. *)

ADA_MAX_TOKENS == 8191

RECURSIVE SumSeq(_)
SumSeq(s) == IF s = <<>> THEN 0 ELSE Head(s) + SumSeq(Tail(s))

sorted(s) == SortSeq(s, LAMBDA a, b : a < b)

\* statistics.mean: the exact mean; no data is a StatisticsError
mean(seq) ==
    IF Len(seq) < 1 THEN Raise("StatisticsError")
    ELSE Rat(SumSeq(seq), Len(seq))

\* statistics.median: the middle of the sorted data, or the mean of the two
\* middle values
median(seq) ==
    IF Len(seq) = 0 THEN Raise("StatisticsError")
    ELSE LET data == sorted(seq)
             k == Len(seq)
         IN  IF k % 2 = 1 THEN Rat(data[(k \div 2) + 1], 1)
             ELSE Rat(data[k \div 2] + data[(k \div 2) + 1], 2)

\* the population standard deviation, which one data point is enough for
pstdev(seq) ==
    IF Len(seq) < 1 THEN Raise("StatisticsError")
    ELSE LET k == Len(seq)
             sq == [i \in 1..k |-> seq[i] * seq[i]]
         IN  [sqrt_of |-> Rat(k * SumSeq(sq) - SumSeq(seq) * SumSeq(seq),
                              k * k)]

\* statistics.stdev: the square root of the sample variance
\* sum((x - mean)^2) / (k - 1) = (k * sum(x^2) - sum(x)^2) / (k * (k - 1));
\* fewer than two data points is a StatisticsError.  The root is kept
\* symbolic: the value is sqrt(sqrt_of).
stdev(seq) ==
    IF Len(seq) < 2 THEN Raise("StatisticsError")
    ELSE LET k == Len(seq)
             sq == [i \in 1..k |-> seq[i] * seq[i]]
         IN  [sqrt_of |-> Rat(k * SumSeq(sq) - SumSeq(seq) * SumSeq(seq),
                              k * (k - 1))]

RECURSIVE min(_)
min(seq) ==
    IF Len(seq) = 1 THEN Head(seq)
    ELSE LET m == min(Tail(seq)) IN IF Head(seq) < m THEN Head(seq) ELSE m

RECURSIVE max(_)
max(seq) ==
    IF Len(seq) = 1 THEN Head(seq)
    ELSE LET m == max(Tail(seq)) IN IF Head(seq) > m THEN Head(seq) ELSE m

\* a percentile that interpolates in the data as given, without ordering it
percentile_unsorted(seq, p) ==
    LET k == Len(seq)
        virtual == p * (k - 1)
        lo == (virtual \div 100) + 1
        hi == IF lo + 1 > k THEN k ELSE lo + 1
        gamma == virtual % 100
    IN  Rat(100 * seq[lo] + gamma * (seq[hi] - seq[lo]), 100)

\* np.percentile(seq, p), method "linear": the value at index p/100 * (k-1)
\* of the sorted data, interpolated between the two neighbouring ranks
percentile(seq, p) ==
    LET data == sorted(seq)
        k == Len(seq)
        virtual == p * (k - 1)
        lo == (virtual \div 100) + 1
        hi == IF lo + 1 > k THEN k ELSE lo + 1
        gamma == virtual % 100
    IN  Rat(100 * data[lo] + gamma * (data[hi] - data[lo]), 100)

\* a count that also takes the elements equal to the threshold
RECURSIVE count_above_or_equal(_, _)
count_above_or_equal(seq, threshold) ==
    IF seq = <<>> THEN 0
    ELSE (IF Head(seq) >= threshold THEN 1 ELSE 0)
         + count_above_or_equal(Tail(seq), threshold)

\* sum(1 for x in seq if x > threshold)
RECURSIVE count_above(_, _)
count_above(seq, threshold) ==
    IF seq = <<>> THEN 0
    ELSE (IF Head(seq) > threshold THEN 1 ELSE 0)
         + count_above(Tail(seq), threshold)

\* SummaryStatistics.from_int_seq: the keyword arguments are evaluated in
\* the order written, so the first that raises decides the exception
from_int_seq(name, seq, threshold) ==
    IF IsExc(mean(seq)) THEN mean(seq)
    ELSE IF IsExc(median(seq)) THEN median(seq)
    ELSE IF IsExc(stdev(seq)) THEN stdev(seq)
    ELSE [collname |-> name,
          nsmpl |-> Len(seq),
          mean |-> mean(seq),
          median |-> median(seq),
          stdev |-> stdev(seq),
          min |-> min(seq),
          max |-> max(seq),
          percentile_05 |-> percentile(seq, 5),
          percentile_95 |-> percentile(seq, 95),
          above_threshold |-> count_above(seq, threshold),
          threshold |-> threshold]

summary_statistics(name, lengths) == from_int_seq(name, lengths, ADA_MAX_TOKENS)

----------------------------------------------------------------------------
(* The Report Renderer. *)

\* format(x, ".0f") of a non-negative rational: the nearest integer, a tie
\* going to the even one
round0f(x) ==
    LET q == x.num \div x.den
        r == x.num % x.den
    IN  IF 2 * r < x.den THEN q
        ELSE IF 2 * r > x.den THEN q + 1
        ELSE IF q % 2 = 0 THEN q ELSE q + 1

\* format(sqrt(x), ".0f"): r with (r - 1/2)^2 <= x <= (r + 1/2)^2
round0f_sqrt(s) ==
    LET x == s.sqrt_of
        Near(r) == /\ (r = 0 \/ (2 * r - 1) * (2 * r - 1) * x.den <= 4 * x.num)
                   /\ 4 * x.num <= (2 * r + 1) * (2 * r + 1) * x.den
        cand == {r \in 0..(x.num + 1) : Near(r)}
    IN  IF \E r \in cand : r % 2 = 0 /\ Cardinality(cand) > 1
        THEN CHOOSE r \in cand : r % 2 = 0
        ELSE CHOOSE r \in cand : TRUE

TABLE_HEADER ==
    <<"Collection", "nsmpl", "mean", "stdev", "min", "5%", "median", "95%",
      "max", ">8191">>

\* one row of the table: the cells between the bars
table_row(s) ==
    <<s.collname, s.nsmpl, round0f(s.mean), round0f_sqrt(s.stdev), s.min,
      round0f(s.percentile_05), round0f(s.median), round0f(s.percentile_95),
      s.max, s.above_threshold>>

\* smy_stats_list_markdown_table: the header and one row per record, in the
\* order of the list
smy_stats_list_markdown_table(list) ==
    [header |-> TABLE_HEADER,
     rows |-> [i \in 1..Len(list) |-> table_row(list[i])]]

----------------------------------------------------------------------------
(* Strings. *)

Whitespace == {" ", "\t", "\n", "\r"}

\* str.strip(): without the whitespace at either end
RECURSIVE lstrip(_)
lstrip(s) ==
    IF s # <<>> /\ Head(s) \in Whitespace THEN lstrip(Tail(s)) ELSE s

RECURSIVE rstrip(_)
rstrip(s) ==
    IF s # <<>> /\ s[Len(s)] \in Whitespace
    THEN rstrip(SubSeq(s, 1, Len(s) - 1)) ELSE s

strip(s) == rstrip(lstrip(s))

\* str.split(sep) with a one-character separator: always at least one field
RECURSIVE split(_, _)
split(s, sep) ==
    IF \A i \in 1..Len(s) : s[i] # sep THEN <<s>>
    ELSE LET i == CHOOSE j \in 1..Len(s) :
                      s[j] = sep /\ \A k \in 1..(j - 1) : s[k] # sep
         IN  <<SubSeq(s, 1, i - 1)>> \o split(SubSeq(s, i + 1, Len(s)), sep)

\* fnmatch.fnmatch(name, pat) on a POSIX system (normcase is the identity):
\* "*" stands for any run of characters, "?" for any one character, every
\* other character for itself; the pattern must cover the whole name.
\* Character classes "[...]" are not modelled; no pattern here has one.
RECURSIVE fnmatch(_, _)
fnmatch(name, pat) ==
    IF pat = <<>> THEN name = <<>>
    ELSE IF Head(pat) = "*"
         THEN \/ fnmatch(name, Tail(pat))
              \/ (name # <<>> /\ fnmatch(Tail(name), pat))
    ELSE IF Head(pat) = "?"
         THEN name # <<>> /\ fnmatch(Tail(name), Tail(pat))
    ELSE name # <<>> /\ Head(name) = Head(pat)
         /\ fnmatch(Tail(name), Tail(pat))

----------------------------------------------------------------------------
(* The Tree Walker. *)

\* Files are records [dir, name, utf8, tokens]: the directory as its path
\* components, the base name, whether the bytes are valid UTF-8, and the
\* number of tokens of the decoded text (the files here decode to the same
\* text under every encoding that accepts them).

PAT_BZ2 == <<"*", ".", "b", "z", "2">>

EXCLUDE_PATTERNS == [is_none |-> FALSE, list |-> <<PAT_BZ2>>]

IsPrefix(p, q) == Len(p) <= Len(q) /\ SubSeq(q, 1, Len(p)) = p

\* os.walk(dir_) flattened to the files it reports, top down; a root that
\* does not exist reports nothing (os.walk ignores the listing error)
os_walk(disk, root) ==
    SelectSeq(disk, LAMBDA f : IsPrefix(split(root, "/"), f.dir))

\* os.path.join(dirpath, filename)
path_join(dirpath, filename) == [dir |-> dirpath, name |-> filename]

\* lines 18-19: no patterns given means none
patterns_of(exclude_patterns) ==
    IF exclude_patterns.is_none THEN <<>> ELSE exclude_patterns.list

\* an exclusion test that also looks at the names of the directories
excluded_by_any_component(f, patterns) ==
    \E i \in 1..Len(patterns) :
        \/ fnmatch(f.name, patterns[i])
        \/ \E j \in 1..Len(f.dir) : fnmatch(f.dir[j], patterns[i])

\* any(fnmatch.fnmatch(filename, pattern) for pattern in exclude_patterns)
excluded(f, patterns) ==
    \E i \in 1..Len(patterns) : fnmatch(f.name, patterns[i])

\* list(list_directory_tree(dir_, exclude_patterns))
RECURSIVE walk_filter(_, _)
walk_filter(files, patterns) ==
    IF files = <<>> THEN <<>>
    ELSE (IF excluded(Head(files), patterns) THEN <<>>
          ELSE <<path_join(Head(files).dir, Head(files).name)>>)
         \o walk_filter(Tail(files), patterns)

list_directory_tree(disk, root, exclude_patterns) ==
    walk_filter(os_walk(disk, root), patterns_of(exclude_patterns))

----------------------------------------------------------------------------
(* The files on disk and the manifests of the model. *)

D == <<"d">>
E == <<"e">>
X_BZ2 == <<"x", ".", "b", "z", "2">>

ARCHIVE_TAR == <<"a", "r", "c", "h", "i", "v", "e", ".", "t", "a", "r">>
ARCHIVE_BZ2 == <<"a", "r", "c", "h", "i", "v", "e", ".", "b", "z", "2">>

\* d/archive.tar  d/archive.bz2  d/n.txt  d/x.bz2/r.txt  e/l.txt  e/m.txt
\* e/l.txt holds bytes that are Latin-1 text and no valid UTF-8; d/archive.bz2
\* is compressed data; e/m.txt is empty.
FilesOnDisk ==
    << [dir |-> <<D>>, name |-> ARCHIVE_TAR, utf8 |-> TRUE, tokens |-> 1],
       [dir |-> <<D>>, name |-> ARCHIVE_BZ2, utf8 |-> FALSE, tokens |-> 3],
       [dir |-> <<D>>, name |-> <<"n", ".", "t", "x", "t">>, utf8 |-> TRUE, tokens |-> 3],
       [dir |-> <<D, X_BZ2>>, name |-> <<"r", ".", "t", "x", "t">>, utf8 |-> TRUE, tokens |-> 2],
       [dir |-> <<E>>, name |-> <<"l", ".", "t", "x", "t">>, utf8 |-> FALSE, tokens |-> 2],
       [dir |-> <<E>>, name |-> <<"m", ".", "t", "x", "t">>, utf8 |-> TRUE, tokens |-> 0] >>

UTF_8 == <<"u", "t", "f", "-", "8">>
U8 == <<"u", "8">>
L1 == <<"l", "1">>

\* the lines a manifest of the model is made of
LINE_docs == <<"d", "o", "c", "s", ":", "d", "\n">>
LINE_lat == <<"l", "a", "t", ":", "e", ":", "l", "1", "\n">>
LINE_raw == <<" ", "r", "a", "w", ":", "e", " ", "\n">>
LINE_sub == <<"s", "u", "b", ":", "d", "/", "x", ".", "b", "z", "2", ":", "u", "8", ":", "z", "\n">>
LINE_bad == <<"b", "a", "d", ":", "d", ":", "\n">>
LINE_gone == <<"g", "o", "n", "e", ":", "q", "\n">>
LINE_solo == <<"s", "o", "l", "o", "\n">>
LINE_blank == <<"\n">>

ManifestLines ==
    {LINE_docs, LINE_lat, LINE_raw, LINE_sub, LINE_bad, LINE_gone, LINE_solo,
     LINE_blank}

SeqsUpTo(S, k) == UNION {[1..m -> S] : m \in 0..k}

\* the elements of s that mask keeps, in their order
RECURSIVE Keep(_, _)
Keep(s, mask) ==
    IF s = <<>> THEN <<>>
    ELSE (IF Head(mask) THEN <<Head(s)>> ELSE <<>>) \o Keep(Tail(s), Tail(mask))

SubSeqs(s) == {Keep(s, mask) : mask \in [1..Len(s) -> BOOLEAN]}

\* the disks a driver run is started on: everything, without d/n.txt, and
\* without e/l.txt
Disks ==
    {FilesOnDisk,
     Keep(FilesOnDisk, <<TRUE, TRUE, FALSE, TRUE, TRUE, TRUE>>),
     Keep(FilesOnDisk, <<TRUE, TRUE, TRUE, TRUE, FALSE, TRUE>>)}

\* the roots and the exclusion patterns list_directory_tree is called with
WalkRoots == {D, E, <<"d", "/", "x", ".", "b", "z", "2">>, <<"q">>}

PatternChoices ==
    {[is_none |-> TRUE],
     EXCLUDE_PATTERNS,
     [is_none |-> FALSE, list |-> <<>>],
     [is_none |-> FALSE, list |-> <<<<"*", ".", "t", "a", "r">>, <<"?", ".", "t", "x", "t">>>>],
     [is_none |-> FALSE, list |-> <<<<"d", "*">>>>],
     [is_none |-> FALSE, list |-> <<<<"*">>>>]}

----------------------------------------------------------------------------
(* The Sampler. *)

Injective(f) == \A i, j \in DOMAIN f : f[i] = f[j] => i = j

\* a sample that is cut down to the population when more is asked for
random_sample_clamped(population, k) ==
    LET m == IF k > Len(population) THEN Len(population) ELSE k
    IN  IF m < 0 THEN {Raise("ValueError")}
        ELSE {Return([i \in 1..m |-> population[pick[i]]]) :
                 pick \in {f \in [1..m -> 1..Len(population)] : Injective(f)}}

\* a sample drawn with replacement
random_choices(population, k) ==
    IF k < 0 \/ k > Len(population) THEN {Raise("ValueError")}
    ELSE {Return([i \in 1..k |-> population[pick[i]]]) :
             pick \in [1..k -> 1..Len(population)]}

\* random.sample(population, k): every choice of k different positions, in
\* every order; ValueError when k is negative or more than there is
random_sample(population, k) ==
    IF k < 0 \/ k > Len(population) THEN {Raise("ValueError")}
    ELSE {Return([i \in 1..k |-> population[pick[i]]]) :
             pick \in {f \in [1..k -> 1..Len(population)] : Injective(f)}}

\* sample_filenames(dir_, n): the possible results
sample_filenames(disk, root, k) ==
    random_sample(list_directory_tree(disk, root, EXCLUDE_PATTERNS), k)

----------------------------------------------------------------------------
(* The Loader and the Tokenizer. *)

\* the codec open() finds for an encoding name, or LookupError
codec_lookup(enc) ==
    IF enc \in {UTF_8, U8} THEN [codec |-> "utf_8"]
    ELSE IF enc = L1 THEN [codec |-> "latin_1"]
    ELSE Raise("LookupError")

file_at(disk, path) ==
    CHOOSE i \in 1..Len(disk) :
        disk[i].dir = path.dir /\ disk[i].name = path.name

\* f.read(): the decoded text, or UnicodeDecodeError on bytes the codec
\* does not accept
read(disk, path, enc) ==
    LET f == disk[file_at(disk, path)]
    IN  IF codec_lookup(enc).codec = "utf_8" /\ ~f.utf8
        THEN Raise("UnicodeDecodeError")
        ELSE [of |-> path, tokens |-> f.tokens]

\* count_tokens(text): the tokenizer is a given function of the text
count_tokens(t) == t.tokens

\* a scope left without closing its file
with_exit_leaking(handles, path) == handles

\* leaving the "with" block closes the file
with_exit(handles, path) == handles \ {path}

----------------------------------------------------------------------------
(* The driver. *)

NoText == [of |-> "none", tokens |-> 0]

\* lines 120-123 with the third field ignored
encoding_ignoring_field(info) == UTF_8

\* lines 120-123
encoding_of(info) == IF Len(info) > 2 THEN info[3] ELSE UTF_8

\* a list that takes its new element at the front
list_prepend(list, x) == <<x>> \o list

\* list.append
list_append(list, x) == Append(list, x)

DriverIdle ==
    /\ manifest = <<>> /\ n = 0
    /\ pc = "idle" /\ err = "none" /\ lineIdx = 0
    /\ collname = <<>> /\ dir_ = <<>> /\ char_encoding = <<>>
    /\ filenames = <<>> /\ fileIdx = 0 /\ text = NoText
    /\ token_lengths = <<>> /\ openHandles = {} /\ events = <<>>
    /\ stats_list = <<>> /\ stdout = <<>>

StatsIdle ==
    /\ st_pc = "idle" /\ st_seq = <<>> /\ st_threshold = 0
    /\ st_record = Raise("none")

WalkIdle ==
    /\ w_pc = "idle" /\ w_dir = <<>> /\ w_patterns = EXCLUDE_PATTERNS
    /\ w_todo = <<>> /\ w_yielded = <<>>

\* lines 107-115: the arguments are parsed, stats_list is empty
Init ==
    /\ manifest \in SeqsUpTo(ManifestLines, MaxLines)
    /\ n \in (-1)..MaxN
    /\ fs \in Disks
    /\ pc = "next_line" /\ err = "none" /\ lineIdx = 0
    /\ collname = <<>> /\ dir_ = <<>> /\ char_encoding = <<>>
    /\ filenames = <<>> /\ fileIdx = 0 /\ text = NoText
    /\ token_lengths = <<>> /\ openHandles = {} /\ events = <<>>
    /\ stats_list = <<>> /\ stdout = <<>>
    /\ StatsIdle /\ WalkIdle

\* lines 116-123: the next line of the manifest is taken apart; info[1] of a
\* line with one field is an IndexError.  events is the record of what the
\* Loader did for the current line.
ParseLine ==
    /\ pc = "next_line" /\ lineIdx < Len(manifest)
    /\ LET info == split(strip(manifest[lineIdx + 1]), ":")
       IN  /\ collname' = info[1]
           /\ IF Len(info) < 2
              THEN /\ pc' = "failed" /\ err' = "IndexError"
                   /\ UNCHANGED <<dir_, char_encoding>>
              ELSE /\ pc' = "sample" /\ err' = err
                   /\ dir_' = info[2]
                   /\ char_encoding' = encoding_of(info)
    /\ filenames' = <<>> /\ fileIdx' = 0 /\ text' = NoText
    /\ token_lengths' = <<>> /\ events' = <<>>
    /\ UNCHANGED <<manifest, n, fs, lineIdx, openHandles, stats_list, stdout>>
    /\ UNCHANGED <<statsVars, walkVars>>

\* line 45: sample_filenames(dir_, n); its ValueError is not caught
SampleFilenames ==
    /\ pc = "sample"
    /\ \E r \in sample_filenames(fs, dir_, n) :
           IF IsExc(r)
           THEN pc' = "failed" /\ err' = r.exc /\ filenames' = filenames
           ELSE pc' = "gen_next" /\ err' = err /\ filenames' = r.value
    /\ UNCHANGED <<manifest, n, fs, lineIdx, collname, dir_, char_encoding,
                   fileIdx, text, token_lengths, openHandles, events,
                   stats_list, stdout>>
    /\ UNCHANGED <<statsVars, walkVars>>

\* lines 33-34, on next(texts): the next file is opened; an unknown encoding
\* is a LookupError and no file is open then
LoaderOpen ==
    /\ pc = "gen_next" /\ fileIdx < Len(filenames)
    /\ fileIdx' = fileIdx + 1
    /\ LET path == filenames[fileIdx + 1]
       IN  IF IsExc(codec_lookup(char_encoding))
           THEN /\ pc' = "failed" /\ err' = codec_lookup(char_encoding).exc
                /\ UNCHANGED <<openHandles, events>>
           ELSE /\ pc' = "opened" /\ err' = err
                /\ openHandles' = openHandles \cup {path}
                /\ events' = Append(events, <<"open", path, char_encoding>>)
    /\ UNCHANGED <<manifest, n, fs, lineIdx, collname, dir_, char_encoding,
                   filenames, text, token_lengths, stats_list, stdout>>
    /\ UNCHANGED <<statsVars, walkVars>>

\* line 35: f.read(), and the text is yielded with the file still open; a
\* decoding error starts to leave the "with" block
LoaderRead ==
    /\ pc = "opened"
    /\ LET path == filenames[fileIdx]
           t == read(fs, path, char_encoding)
       IN  IF IsExc(t)
           THEN /\ pc' = "raising" /\ err' = t.exc
                /\ UNCHANGED <<text, events>>
           ELSE /\ pc' = "yielded" /\ err' = err
                /\ text' = t
                /\ events' = Append(events, <<"yield", path, char_encoding>>)
    /\ UNCHANGED <<manifest, n, fs, lineIdx, collname, dir_, char_encoding,
                   filenames, fileIdx, token_lengths, openHandles,
                   stats_list, stdout>>
    /\ UNCHANGED <<statsVars, walkVars>>

\* line 34: the "with" block is left by the exception, which closes the
\* file; the exception then leaves the generator and the driver
LoaderExitRaising ==
    /\ pc = "raising"
    /\ openHandles' = with_exit(openHandles, filenames[fileIdx])
    /\ events' = Append(events, <<"close", filenames[fileIdx], char_encoding>>)
    /\ pc' = "failed"
    /\ UNCHANGED <<manifest, n, fs, err, lineIdx, collname, dir_,
                   char_encoding, filenames, fileIdx, text, token_lengths,
                   stats_list, stdout>>
    /\ UNCHANGED <<statsVars, walkVars>>

\* line 47: the list comprehension counts the tokens of the yielded text
CountTokens ==
    /\ pc = "yielded"
    /\ token_lengths' = Append(token_lengths, count_tokens(text))
    /\ pc' = "resume"
    /\ UNCHANGED <<manifest, n, fs, err, lineIdx, collname, dir_,
                   char_encoding, filenames, fileIdx, text, openHandles,
                   events, stats_list, stdout>>
    /\ UNCHANGED <<statsVars, walkVars>>

\* line 34, on the next next(texts): the generator resumes after the yield
\* and leaves the "with" block, which closes the file
LoaderResume ==
    /\ pc = "resume"
    /\ openHandles' = with_exit(openHandles, filenames[fileIdx])
    /\ events' = Append(events, <<"close", filenames[fileIdx], char_encoding>>)
    /\ pc' = "gen_next"
    /\ UNCHANGED <<manifest, n, fs, err, lineIdx, collname, dir_,
                   char_encoding, filenames, fileIdx, text, token_lengths,
                   stats_list, stdout>>
    /\ UNCHANGED <<statsVars, walkVars>>

\* line 33: no path is left, the generator ends and the list is complete
LoaderExhausted ==
    /\ pc = "gen_next" /\ fileIdx = Len(filenames)
    /\ pc' = "stats"
    /\ UNCHANGED <<manifest, n, fs, err, lineIdx, collname, dir_,
                   char_encoding, filenames, fileIdx, text, token_lengths,
                   openHandles, events, stats_list, stdout>>
    /\ UNCHANGED <<statsVars, walkVars>>

\* line 125: the record is computed and appended; a StatisticsError is not
\* caught
Summarise ==
    /\ pc = "stats"
    /\ LET r == summary_statistics(collname, token_lengths)
       IN  IF IsExc(r)
           THEN /\ pc' = "failed" /\ err' = r.exc
                /\ UNCHANGED <<lineIdx, stats_list>>
           ELSE /\ pc' = "next_line" /\ err' = err
                /\ lineIdx' = lineIdx + 1
                /\ stats_list' = list_append(stats_list, r)
    /\ UNCHANGED <<manifest, n, fs, collname, dir_, char_encoding, filenames,
                   fileIdx, text, token_lengths, openHandles, events, stdout>>
    /\ UNCHANGED <<statsVars, walkVars>>

\* a table that is printed however the loop was left
PrintTable_in_finally ==
    /\ \/ pc = "next_line" /\ lineIdx = Len(manifest)
       \/ pc = "failed" /\ stdout = <<>> /\ stats_list # <<>>
    /\ stdout' = Append(stdout, smy_stats_list_markdown_table(stats_list))
    /\ pc' = IF pc = "failed" THEN "failed" ELSE "done"
    /\ UNCHANGED <<manifest, n, fs, err, lineIdx, collname, dir_,
                   char_encoding, filenames, fileIdx, text, token_lengths,
                   openHandles, events, stats_list>>
    /\ UNCHANGED <<statsVars, walkVars>>

\* line 126: after the last line the table is printed
PrintTable ==
    /\ pc = "next_line" /\ lineIdx = Len(manifest)
    /\ stdout' = Append(stdout, smy_stats_list_markdown_table(stats_list))
    /\ pc' = "done"
    /\ UNCHANGED <<manifest, n, fs, err, lineIdx, collname, dir_,
                   char_encoding, filenames, fileIdx, text, token_lengths,
                   openHandles, events, stats_list>>
    /\ UNCHANGED <<statsVars, walkVars>>

Next ==
    \/ ParseLine
    \/ SampleFilenames
    \/ LoaderOpen
    \/ LoaderRead
    \/ LoaderExitRaising
    \/ CountTokens
    \/ LoaderResume
    \/ LoaderExhausted
    \/ Summarise
    \/ PrintTable

Spec == Init /\ [][Next]_vars

----------------------------------------------------------------------------
(* SummaryStatistics.from_int_seq called directly. *)

Thresholds == ((-1)..(MaxTok + 1)) \cup {ADA_MAX_TOKENS}

StatsInit ==
    /\ fs = <<>>
    /\ DriverIdle /\ WalkIdle
    /\ st_pc = "call"
    /\ st_seq \in SeqsUpTo(0..MaxTok, MaxSeqLen)
    /\ st_threshold \in Thresholds
    /\ st_record = Raise("none")

\* lines 66-79
CallFromIntSeq ==
    /\ st_pc = "call"
    /\ st_record' = from_int_seq(<<"c">>, st_seq, st_threshold)
    /\ st_pc' = IF IsExc(st_record') THEN "raised" ELSE "returned"
    /\ UNCHANGED <<st_seq, st_threshold, fs, driverVars, walkVars>>

StatsNext == CallFromIntSeq

SpecStats == StatsInit /\ [][StatsNext]_vars

----------------------------------------------------------------------------
(* list_directory_tree iterated directly. *)

WalkInit ==
    /\ fs \in SubSeqs(FilesOnDisk)
    /\ DriverIdle /\ StatsIdle
    /\ w_pc = "created"
    /\ w_dir \in WalkRoots
    /\ w_patterns \in PatternChoices
    /\ w_todo = <<>> /\ w_yielded = <<>>

\* lines 18-21: on the first next() the patterns are settled and os.walk
\* starts
WalkStart ==
    /\ w_pc = "created"
    /\ w_patterns' = [is_none |-> FALSE, list |-> patterns_of(w_patterns)]
    /\ w_todo' = os_walk(fs, w_dir)
    /\ w_pc' = "walking"
    /\ UNCHANGED <<w_dir, w_yielded, fs, driverVars, statsVars>>

\* lines 22-25: the next file name is tested and, unless a pattern matches
\* it, its path is yielded
WalkVisit ==
    /\ w_pc = "walking" /\ w_todo # <<>>
    /\ w_todo' = Tail(w_todo)
    /\ w_yielded' =
           IF excluded(Head(w_todo), w_patterns.list) THEN w_yielded
           ELSE Append(w_yielded,
                       path_join(Head(w_todo).dir, Head(w_todo).name))
    /\ UNCHANGED <<w_pc, w_dir, w_patterns, fs, driverVars, statsVars>>

\* line 21: os.walk has nothing more
WalkExhausted ==
    /\ w_pc = "walking" /\ w_todo = <<>>
    /\ w_pc' = "exhausted"
    /\ UNCHANGED <<w_dir, w_patterns, w_todo, w_yielded, fs, driverVars,
                   statsVars>>

WalkNext == WalkStart \/ WalkVisit \/ WalkExhausted

SpecWalk == WalkInit /\ [][WalkNext]_vars

----------------------------------------------------------------------------
(* What the claims are stated with. *)

\* the driver is working on a line whose sample has been drawn
Sampled == pc \in {"gen_next", "opened", "raising", "yielded", "resume", "stats"}

EndsWith(s, suffix) ==
    /\ Len(s) >= Len(suffix)
    /\ SubSeq(s, Len(s) - Len(suffix) + 1, Len(s)) = suffix

DOT_BZ2 == <<".", "b", "z", "2">>

\* the positions on disk of the files below the directory named by root
Below(disk, root) ==
    {i \in 1..Len(disk) : IsPrefix(split(root, "/"), disk[i].dir)}

Occurrences(s, x) == Cardinality({i \in 1..Len(s) : s[i] = x})

\* what each line of the model is, read by hand: its number of fields, and
\* the name, directory (also as path components) and encoding of a line
\* that has them
ExpectedFields(line) ==
    CASE line = LINE_docs ->
             [fields |-> 2,
              name |-> <<"d", "o", "c", "s">>,
              dir |-> <<"d">>,
              root |-> <<D>>,
              enc |-> <<"u", "t", "f", "-", "8">>]
      [] line = LINE_lat ->
             [fields |-> 3,
              name |-> <<"l", "a", "t">>,
              dir |-> <<"e">>,
              root |-> <<E>>,
              enc |-> <<"l", "1">>]
      [] line = LINE_raw ->
             [fields |-> 2,
              name |-> <<"r", "a", "w">>,
              dir |-> <<"e">>,
              root |-> <<E>>,
              enc |-> <<"u", "t", "f", "-", "8">>]
      [] line = LINE_sub ->
             [fields |-> 4,
              name |-> <<"s", "u", "b">>,
              dir |-> <<"d", "/", "x", ".", "b", "z", "2">>,
              root |-> <<D, X_BZ2>>,
              enc |-> <<"u", "8">>]
      [] line = LINE_bad ->
             [fields |-> 3,
              name |-> <<"b", "a", "d">>,
              dir |-> <<"d">>,
              root |-> <<D>>,
              enc |-> <<>>]
      [] line = LINE_gone ->
             [fields |-> 2,
              name |-> <<"g", "o", "n", "e">>,
              dir |-> <<"q">>,
              root |-> <<<<"q">>>>,
              enc |-> <<"u", "t", "f", "-", "8">>]
      [] line = LINE_solo ->
             [fields |-> 1,
              name |-> <<"s", "o", "l", "o">>,
              dir |-> <<>>,
              root |-> <<>>,
              enc |-> <<>>]
      [] line = LINE_blank ->
             [fields |-> 1,
              name |-> <<>>,
              dir |-> <<>>,
              root |-> <<>>,
              enc |-> <<>>]

\* lines no run gets past: too few fields, a directory that is not there,
\* an encoding that does not exist
DoomedLines == {LINE_blank, LINE_solo, LINE_gone, LINE_bad}

----------------------------------------------------------------------------
(* C1: once any step has failed for any manifest line, the run is over in  *)
(* failure and nothing has been or will be printed, the records of earlier *)
(* lines included; a table is on standard output only after every line     *)
(* went through, and no run with a line that must fail gets there.         *)
C1_NoOutputOnFailure ==
    /\ err # "none" => pc \in {"raising", "failed"} /\ stdout = <<>>
    /\ pc = "failed" => err # "none" /\ stdout = <<>> /\ ~ENABLED Next
    /\ stdout # <<>> =>
           /\ pc = "done" /\ err = "none"
           /\ Len(stats_list) = Len(manifest)
           /\ manifest # <<>> => n >= 2
           /\ \A i \in 1..Len(manifest) : manifest[i] \notin DoomedLines

\* the second line fails after the record of the first was computed
C1_Witness ==
    /\ pc = "failed" /\ lineIdx = 1 /\ Len(stats_list) = 1
    /\ stdout = <<>>

(* C2: for a requested size n between 0 and the size of the enumerated     *)
(* population, sample_filenames returns exactly n paths, no path twice,    *)
(* each one of the population; it fails for no such n.                     *)
C2_SampleExact ==
    LET population == list_directory_tree(fs, dir_, EXCLUDE_PATTERNS)
    IN  /\ Sampled =>
               /\ Len(filenames) = n
               /\ \A i, j \in 1..Len(filenames) :
                      filenames[i] = filenames[j] => i = j
               /\ \A i \in 1..Len(filenames) :
                      \E j \in 1..Len(population) : filenames[i] = population[j]
        /\ pc = "failed" /\ err = "ValueError" =>
               ~(0 <= n /\ n <= Len(population))

\* a proper sample: two of three files
C2_Witness ==
    /\ pc = "gen_next" /\ fileIdx = 0 /\ n = 2
    /\ Len(list_directory_tree(fs, dir_, EXCLUDE_PATTERNS)) = 3
    /\ Len(filenames) = 2

(* C3: sample_filenames fails whenever n exceeds the number of files below *)
(* the directory whose names do not end in ".bz2"; nothing catches the     *)
(* failure and no smaller sample is loaded in its place.                   *)
C3_TooLargeFails ==
    LET available == Cardinality({i \in Below(fs, dir_) :
                                     ~EndsWith(fs[i].name, DOT_BZ2)})
    IN  /\ Sampled => n <= available
        /\ pc = "failed" /\ err = "ValueError" =>
               /\ n > available \/ n < 0
               /\ filenames = <<>> /\ token_lengths = <<>> /\ events = <<>>
               /\ stdout = <<>> /\ ~ENABLED Next

\* n is more than the files that are left and no more than the files there
\* are: only the count after exclusion makes the call fail
C3_Witness ==
    /\ pc = "failed" /\ err = "ValueError"
    /\ n <= Cardinality(Below(fs, dir_))
    /\ n > Cardinality({i \in Below(fs, dir_) : ~EndsWith(fs[i].name, DOT_BZ2)})

(* C4: when every line succeeded the printed table has one row per line of *)
(* the manifest, row i with the name of line i; the result list holds the  *)
(* records of the lines done so far in their order, and changes only by    *)
(* one record appended at its end.                                         *)
C4_InOrder ==
    /\ Len(stats_list) = lineIdx
    /\ \A i \in 1..Len(stats_list) :
           stats_list[i].collname = ExpectedFields(manifest[i]).name
    /\ pc = "done" =>
           /\ Len(stdout) = 1
           /\ stdout[1].header = TABLE_HEADER
           /\ Len(stdout[1].rows) = Len(manifest)
           /\ \A i \in 1..Len(manifest) :
                  stdout[1].rows[i][1] = ExpectedFields(manifest[i]).name

C4_OnlyAppend ==
    \/ stats_list' = stats_list
    \/ /\ Len(stats_list') = Len(stats_list) + 1
       /\ SubSeq(stats_list', 1, Len(stats_list)) = stats_list

\* C4: the list and the table follow the manifest's order in every state,
\* and every step leaves the list alone or appends one record to it
C4_RowsInManifestOrder == [](C4_InOrder) /\ [][C4_OnlyAppend]_vars

\* a table of two rows for two different collections
C4_Witness ==
    /\ pc = "done" /\ Len(manifest) = 2 /\ manifest[1] # manifest[2]
    /\ Len(stdout[1].rows) = 2

----------------------------------------------------------------------------
\* the r-th smallest element of seq, by counting
OrderStat(seq, r) ==
    CHOOSE v \in {seq[i] : i \in 1..Len(seq)} :
        /\ Cardinality({i \in 1..Len(seq) : seq[i] < v}) < r
        /\ r <= Cardinality({i \in 1..Len(seq) : seq[i] <= v})

Eq(x, y) == x.num * y.den = y.num * x.den

\* the value at index p/100 * (k - 1) of the ordered data, interpolated
RankPercentile(seq, p) ==
    LET k == Len(seq)
        lo == ((p * (k - 1)) \div 100) + 1
        hi == IF lo < k THEN lo + 1 ELSE k
        a == OrderStat(seq, lo)
        b == OrderStat(seq, hi)
    IN  Rat(100 * a + ((p * (k - 1)) % 100) * (b - a), 100)

RankMedian(seq) ==
    LET k == Len(seq)
    IN  IF k % 2 = 1 THEN Rat(OrderStat(seq, (k + 1) \div 2), 1)
        ELSE Rat(OrderStat(seq, k \div 2) + OrderStat(seq, (k \div 2) + 1), 2)

(* C5: for every sequence of at least 2 integers from_int_seq builds a     *)
(* record, and in it min <= percentile_05 <= median <= percentile_95 <=    *)
(* max, the percentiles being the interpolated values at index             *)
(* p/100 * (n - 1) of the ordered sequence and the median its middle.      *)
C5_OrderedQuantiles ==
    /\ st_pc \in {"returned", "raised"} /\ Len(st_seq) >= 2 =>
           st_pc = "returned"
    /\ st_pc = "returned" =>
           /\ Leq(Rat(st_record.min, 1), st_record.percentile_05)
           /\ Leq(st_record.percentile_05, st_record.median)
           /\ Leq(st_record.median, st_record.percentile_95)
           /\ Leq(st_record.percentile_95, Rat(st_record.max, 1))
           /\ st_record.min = OrderStat(st_seq, 1)
           /\ st_record.max = OrderStat(st_seq, Len(st_seq))
           /\ Eq(st_record.percentile_05, RankPercentile(st_seq, 5))
           /\ Eq(st_record.percentile_95, RankPercentile(st_seq, 95))
           /\ Eq(st_record.median, RankMedian(st_seq))

\* all five apart, from data given out of order
C5_Witness ==
    /\ st_pc = "returned"
    /\ st_seq[1] > st_seq[2]
    /\ ~Leq(st_record.percentile_05, Rat(st_record.min, 1))
    /\ ~Leq(st_record.median, st_record.percentile_05)
    /\ ~Leq(st_record.percentile_95, st_record.median)
    /\ ~Leq(Rat(st_record.max, 1), st_record.percentile_95)

(* C6: above_threshold is the number of elements strictly greater than the *)
(* threshold, elements equal to it not counted: 0 for the maximum as       *)
(* threshold, all of them for the minimum less one; the record keeps the   *)
(* threshold and the length of the sequence.                               *)
C6_AboveThreshold ==
    st_pc = "returned" =>
        /\ st_record.above_threshold =
               Cardinality({i \in 1..Len(st_seq) : st_seq[i] > st_threshold})
        /\ st_record.threshold = st_threshold
        /\ st_record.nsmpl = Len(st_seq)
        /\ st_threshold = st_record.max => st_record.above_threshold = 0
        /\ st_threshold = st_record.min - 1 =>
               st_record.above_threshold = Len(st_seq)

\* an element equal to the threshold beside greater ones
C6_Witness ==
    /\ st_pc = "returned"
    /\ \E i \in 1..Len(st_seq) : st_seq[i] = st_threshold
    /\ st_record.above_threshold >= 1
    /\ st_record.above_threshold < Len(st_seq)

(* C7: list_directory_tree yields the path of a file below the root        *)
(* exactly once when no exclusion pattern matches its base name and never  *)
(* otherwise, whatever the names of its directories are; with the default  *)
(* pattern that is every file whose name does not end in ".bz2", so        *)
(* archive.bz2 never and archive.tar always.                               *)
C7_YieldsUnlessExcluded ==
    /\ \A i \in 1..Len(w_yielded) :
           /\ \E j \in Below(fs, w_dir) :
                  w_yielded[i] = path_join(fs[j].dir, fs[j].name)
           /\ w_patterns = EXCLUDE_PATTERNS => w_yielded[i].name # ARCHIVE_BZ2
    /\ w_pc = "exhausted" =>
           \A j \in Below(fs, w_dir) :
               LET times == Occurrences(w_yielded,
                                        path_join(fs[j].dir, fs[j].name))
                   pats == w_patterns.list
               IN  /\ times = IF \E k \in 1..Len(pats) :
                                    fnmatch(fs[j].name, pats[k])
                              THEN 0 ELSE 1
                   /\ w_patterns = EXCLUDE_PATTERNS =>
                          /\ times = IF EndsWith(fs[j].name, DOT_BZ2)
                                     THEN 0 ELSE 1
                          /\ fs[j].name = ARCHIVE_TAR => times = 1

\* the default pattern, archive.bz2 and archive.tar side by side, and a
\* file in a directory whose own name ends in ".bz2"
C7_Witness ==
    /\ w_pc = "exhausted" /\ w_patterns = EXCLUDE_PATTERNS
    /\ \E j \in Below(fs, w_dir) : fs[j].name = ARCHIVE_BZ2
    /\ \E i \in 1..Len(w_yielded) : w_yielded[i].name = ARCHIVE_TAR
    /\ \E i \in 1..Len(w_yielded) :
           w_yielded[i].dir[Len(w_yielded[i].dir)] = X_BZ2

----------------------------------------------------------------------------
\* the positions in the Loader's record of the events of one kind
EventsOf(kind) == {i \in 1..Len(events) : events[i][1] = kind}

(* C8: while sample_token_lengths consumes load_files at most one file is  *)
(* open at any moment, a file is closed before the next one is opened, the *)
(* texts come one per path in the order of the paths, and a file whose     *)
(* read raised is closed by the time the error has left the Loader.        *)
C8_OneHandleAtATime ==
    /\ Cardinality(openHandles) <= 1
    /\ pc \in {"opened", "raising", "yielded", "resume"} =>
           openHandles = {filenames[fileIdx]}
    /\ pc \in {"gen_next", "stats", "failed", "next_line", "done"} =>
           openHandles = {}
    /\ \A i, j \in EventsOf("open") :
           i < j => \E k \in EventsOf("close") :
                        i < k /\ k < j /\ events[k][2] = events[i][2]
    /\ LET yields == EventsOf("yield")
       IN  /\ Cardinality(yields) <= Len(filenames)
           /\ \A i \in yields :
                  events[i][2] =
                      filenames[Cardinality({k \in yields : k <= i})]
           /\ Len(token_lengths) <= Cardinality(yields)
           /\ pc = "stats" =>
                  /\ Cardinality(yields) = Len(filenames)
                  /\ Len(token_lengths) = Len(filenames)
    /\ pc = "failed" /\ err = "UnicodeDecodeError" =>
           /\ events[Len(events)][1] = "close"
           /\ events[Len(events)][2] = filenames[fileIdx]

\* the read of the second file raised after the first was read and closed
C8_Witness ==
    /\ pc = "failed" /\ err = "UnicodeDecodeError"
    /\ fileIdx = 2 /\ Len(token_lengths) = 1
    /\ openHandles = {}

(* C9: from_int_seq builds no record from fewer than 2 elements, so a run  *)
(* with sample size 1 or 0 (or less) computes no record, fails on its      *)
(* first line and prints nothing, whatever the collection holds.           *)
C9_TooFewSamplesFail ==
    /\ \A i \in 1..Len(stats_list) : stats_list[i].nsmpl >= 2
    /\ err = "StatisticsError" =>
           pc = "failed" /\ Len(token_lengths) < 2 /\ ~ENABLED Next
    /\ n < 2 /\ manifest # <<>> =>
           /\ stats_list = <<>> /\ stdout = <<>> /\ lineIdx = 0
           /\ pc # "done"
           /\ pc = "stats" => Len(token_lengths) < 2

\* one file was sampled and read, and the statistics failed
C9_Witness ==
    /\ pc = "failed" /\ err = "StatisticsError"
    /\ n = 1 /\ Len(token_lengths) = 1 /\ lineIdx = 0

(* C10: of a manifest line, stripped and split at ":", field 1 is the      *)
(* collection name and field 2 the directory; the files are opened with    *)
(* field 3 when there is one and with utf-8 otherwise; a line of fewer     *)
(* than two fields is an IndexError before any file is sampled or opened.  *)
C10_ManifestFields ==
    /\ pc \in {"sample", "failed"} \/ Sampled =>
           LET expected == ExpectedFields(manifest[lineIdx + 1])
           IN  /\ collname = expected.name
               /\ expected.fields >= 2 =>
                      /\ dir_ = expected.dir
                      /\ char_encoding = expected.enc
               /\ \A i \in 1..Len(events) :
                      /\ events[i][3] = expected.enc
                      /\ IsPrefix(expected.root, events[i][2].dir)
               /\ expected.fields < 2 <=> err = "IndexError"
    /\ err = "IndexError" =>
           /\ pc = "failed" /\ ~ENABLED Next
           /\ filenames = <<>> /\ events = <<>> /\ token_lengths = <<>>

\* a file that is no UTF-8 was read under the encoding the line names
C10_Witness ==
    /\ pc = "yielded" /\ manifest[lineIdx + 1] = LINE_lat
    /\ ~fs[file_at(fs, text.of)].utf8
    /\ events[Len(events)] = <<"yield", text.of, L1>>

====
